---- MODULE Spec2Model ----
(***************************************************************************)
(* State-machine model of the chorus-prayers ledger program                *)
(* (programs/chorus-prayers/src/lib.rs).                                   *)
(*                                                                         *)
(* Every instruction is one atomic action.  For each instruction the       *)
(* operator <name>_result gives what the call returns in the current       *)
(* state: "Ok", or the first error met, in the order the program meets     *)
(* them (the Accounts context's validation, then the handler's require!s,  *)
(* then a panicking checked_* unwrap or a failed system transfer).  A call *)
(* that does not return "Ok" is rolled back by the runtime and changes no  *)
(* account, so only calls returning "Ok" are steps of the model.           *)
(*                                                                         *)
(* Lamports are counted with storage rent aside.  A Prayer account holds   *)
(* PRAYER_RENT + escrow lamports: `escrow` is what it holds above the      *)
(* rent-exempt minimum its creation deposited (an integer: code that       *)
(* overdraws the escrow eats into the rent), and a checked_sub on the      *)
(* account fails only below zero lamports.  `lamports[w]` is a wallet's    *)
(* balance with the rent it has locked in accounts added back.             *)
(*                                                                         *)
(* Record fields that are written once and never read by any instruction   *)
(* (names, skills, keys, hashes, prayer_type, created_at, fulfilled_at,    *)
(* registered_at, bump) are not modelled.                                  *)
(***************************************************************************)
EXTENDS Integers, Sequences, FiniteSets, TLC

\* ---- program constants -------------------------------------------------
CLAIM_TIMEOUT_SECONDS == 3600
MAX_CLAIMERS_LIMIT == 10
MAX_TTL_SECONDS == 604800
MAX_NAME == 32
MAX_SKILLS == 256
REP_ANSWER == 10
REP_CONFIRM == 5
MAX_U8 == 255
\* Rent::minimum_balance(8 + Prayer::INIT_SPACE): (128 + 181) bytes * 3480 * 2
PRAYER_RENT == 2150640

\* ---- bounds of the model -----------------------------------------------
MaxPrayers == 1
MaxTicks == 2
MaxPayees == 3
InitLamports == 5
\* prayers posted in the specification of posting alone
MaxPosts == 2

Wallets == {"w1", "w2", "w3"}
NoWallet == "default"
PrayerIds == 0 .. (MaxPrayers - 1)
PostIds == 0 .. (MaxPosts - 1)

\* inputs the callers may supply
RewardInputs == {0, 3}
TtlInputs == {0, 1, MAX_TTL_SECONDS, MAX_TTL_SECONDS + 1}
MaxClaimersInputs == {0, 1, 2, MAX_CLAIMERS_LIMIT + 1}
NameLenInputs == {MAX_NAME, MAX_NAME + 1}
SkillsLenInputs == {MAX_SKILLS, MAX_SKILLS + 1}
TickInputs == {1, CLAIM_TIMEOUT_SECONDS}
PayeeLists == UNION {[1 .. n -> Wallets] : n \in 0 .. MaxPayees}
\* the payee lists tried with calls that fail
ShortPayeeLists == {payees \in PayeeLists : Len(payees) <= 1}

NoAgent == [exists |-> FALSE]
NoPrayer == [exists |-> FALSE]
NoClaim == [exists |-> FALSE]

VARIABLES
    chain,      \* PrayerChain singleton: total_prayers, total_answered, total_agents
    agents,     \* wallet -> Agent account or NoAgent
    prayers,    \* prayer id -> Prayer account or NoPrayer
    claims,     \* <<prayer id, wallet>> -> Claim account or NoClaim
    lamports,   \* wallet -> balance
    now,        \* Clock::get().unix_timestamp
    ticks,      \* number of clock advances so far (bounds the run)
    escrowed,   \* history: prayer id -> reward escrowed at post_prayer
    paid_out,   \* history: prayer id -> total value moved out of the prayer account
    confirmed,  \* history: prayer id -> the PrayerConfirmed event, and whether the payees
                \* given were the live claimers
    fresh       \* history: the prayer just posted, while no instruction has followed

vars == <<chain, agents, prayers, claims, lamports, now, ticks, escrowed, paid_out,
          confirmed, fresh>>

NoEvent == [emitted |-> FALSE]
NoFresh == [posted |-> FALSE]

Init ==
    /\ chain = [total_prayers |-> 0, total_answered |-> 0, total_agents |-> 0]
    /\ agents = [w \in Wallets |-> NoAgent]
    /\ prayers = [p \in PrayerIds |-> NoPrayer]
    /\ claims = [k \in PrayerIds \X Wallets |-> NoClaim]
    /\ lamports = [w \in Wallets |-> InitLamports]
    /\ now = 0
    /\ ticks = 0
    /\ escrowed = [p \in PrayerIds |-> 0]
    /\ paid_out = [p \in PrayerIds |-> 0]
    /\ confirmed = [p \in PrayerIds |-> NoEvent]
    /\ fresh = NoFresh

\* ---- the clock ---------------------------------------------------------
Tick ==
    /\ ticks < MaxTicks
    /\ \E d \in TickInputs : now' = now + d
    /\ ticks' = ticks + 1
    /\ UNCHANGED <<chain, agents, prayers, claims, lamports, escrowed, paid_out, confirmed, fresh>>

\* ---- register_agent ----------------------------------------------------
\* mutant: the Agent account is created over an existing one
register_agent_result_reinit(w, nameLen, skillsLen, keyZero) ==
    IF ~(nameLen <= MAX_NAME) THEN "NameTooLong"
    ELSE IF ~(skillsLen <= MAX_SKILLS) THEN "SkillsTooLong"
    ELSE IF keyZero THEN "InvalidEncryptionKey"
    ELSE "Ok"

register_agent_result(w, nameLen, skillsLen, keyZero) ==
    IF agents[w].exists THEN "AccountAlreadyInUse"
    ELSE IF ~(nameLen <= MAX_NAME) THEN "NameTooLong"
    ELSE IF ~(skillsLen <= MAX_SKILLS) THEN "SkillsTooLong"
    ELSE IF keyZero THEN "InvalidEncryptionKey"
    ELSE "Ok"

register_agent(w, nameLen, skillsLen, keyZero) ==
    /\ register_agent_result(w, nameLen, skillsLen, keyZero) = "Ok"
    /\ agents' = [agents EXCEPT ![w] =
          [exists |-> TRUE, prayers_posted |-> 0, prayers_answered |-> 0,
           prayers_confirmed |-> 0, reputation |-> 0]]
    /\ chain' = [chain EXCEPT !.total_agents = @ + 1]
    /\ fresh' = NoFresh
    /\ UNCHANGED <<prayers, claims, lamports, now, ticks, escrowed, paid_out, confirmed>>

RegisterAgent ==
    \E w \in Wallets, nl \in NameLenInputs, sl \in SkillsLenInputs, kz \in BOOLEAN :
        register_agent(w, nl, sl, kz)

\* ---- post_prayer -------------------------------------------------------
post_prayer_result(w, reward, ttl, maxc) ==
    IF ~agents[w].exists THEN "AccountNotInitialized"
    ELSE IF ~(ttl > 0 /\ ttl <= MAX_TTL_SECONDS) THEN "InvalidTTL"
    ELSE IF ~(maxc >= 1 /\ maxc <= MAX_CLAIMERS_LIMIT) THEN "InvalidMaxClaimers"
    ELSE IF reward > 0 /\ lamports[w] < reward THEN "InsufficientFunds"
    ELSE "Ok"

\* mutant: the reward is put in escrow without being taken from the requester
post_prayer_without_debit(w, reward, ttl, maxc) ==
    LET id == chain.total_prayers IN
    /\ id \in DOMAIN prayers
    /\ post_prayer_result(w, reward, ttl, maxc) = "Ok"
    /\ prayers' = [prayers EXCEPT ![id] =
          [exists |-> TRUE, id |-> id, requester |-> w, reward_lamports |-> reward,
           status |-> "Open", max_claimers |-> maxc, num_claimers |-> 0,
           answerer |-> NoWallet, expires_at |-> now + ttl, escrow |-> reward]]
    /\ chain' = [chain EXCEPT !.total_prayers = @ + 1]
    /\ agents' = [agents EXCEPT ![w].prayers_posted = @ + 1]
    /\ escrowed' = [escrowed EXCEPT ![id] = reward]
    /\ fresh' = [posted |-> TRUE, pid |-> id, balance_before |-> lamports[w]]
    /\ UNCHANGED <<claims, lamports, now, ticks, paid_out, confirmed>>

\* mutant: the counter the id is read from is not advanced
post_prayer_keeps_counter(w, reward, ttl, maxc) ==
    LET id == chain.total_prayers IN
    /\ id \in DOMAIN prayers
    /\ post_prayer_result(w, reward, ttl, maxc) = "Ok"
    /\ prayers' = [prayers EXCEPT ![id] =
          [exists |-> TRUE, id |-> id, requester |-> w, reward_lamports |-> reward,
           status |-> "Open", max_claimers |-> maxc, num_claimers |-> 0,
           answerer |-> NoWallet, expires_at |-> now + ttl, escrow |-> reward]]
    /\ lamports' = [lamports EXCEPT ![w] = @ - reward]
    /\ agents' = [agents EXCEPT ![w].prayers_posted = @ + 1]
    /\ escrowed' = [escrowed EXCEPT ![id] = reward]
    /\ fresh' = [posted |-> TRUE, pid |-> id, balance_before |-> lamports[w]]
    /\ UNCHANGED <<chain, claims, now, ticks, paid_out, confirmed>>

post_prayer(w, reward, ttl, maxc) ==
    LET id == chain.total_prayers IN
    /\ id \in DOMAIN prayers
    /\ post_prayer_result(w, reward, ttl, maxc) = "Ok"
    /\ prayers' = [prayers EXCEPT ![id] =
          [exists |-> TRUE, id |-> id, requester |-> w, reward_lamports |-> reward,
           status |-> "Open", max_claimers |-> maxc, num_claimers |-> 0,
           answerer |-> NoWallet, expires_at |-> now + ttl, escrow |-> reward]]
    /\ lamports' = [lamports EXCEPT ![w] = @ - reward]
    /\ chain' = [chain EXCEPT !.total_prayers = @ + 1]
    /\ agents' = [agents EXCEPT ![w].prayers_posted = @ + 1]
    /\ escrowed' = [escrowed EXCEPT ![id] = reward]
    /\ fresh' = [posted |-> TRUE, pid |-> id, balance_before |-> lamports[w]]
    /\ UNCHANGED <<claims, now, ticks, paid_out, confirmed>>

PostPrayer ==
    \E w \in Wallets, reward \in RewardInputs, ttl \in TtlInputs, maxc \in MaxClaimersInputs :
        post_prayer(w, reward, ttl, maxc)

\* ---- claim_prayer --------------------------------------------------------
\* mutant: the claim is accepted whatever the prayer's status
claim_prayer_result_any_status(w, pid) ==
    IF ~prayers[pid].exists THEN "AccountNotInitialized"
    ELSE IF claims[<<pid, w>>].exists THEN "AccountAlreadyInUse"
    ELSE IF ~agents[w].exists THEN "AccountNotInitialized"
    ELSE IF ~(now < prayers[pid].expires_at) THEN "Expired"
    ELSE IF ~(prayers[pid].requester # w) THEN "CannotClaimOwn"
    ELSE IF prayers[pid].num_claimers + 1 > MAX_U8 THEN "Panic"
    ELSE "Ok"

\* mutant: the Claim account is created over an existing one
claim_prayer_result_reinit(w, pid) ==
    IF ~prayers[pid].exists THEN "AccountNotInitialized"
    ELSE IF ~agents[w].exists THEN "AccountNotInitialized"
    ELSE IF ~(prayers[pid].status = "Open") THEN "NotOpen"
    ELSE IF ~(now < prayers[pid].expires_at) THEN "Expired"
    ELSE IF ~(prayers[pid].requester # w) THEN "CannotClaimOwn"
    ELSE IF prayers[pid].num_claimers + 1 > MAX_U8 THEN "Panic"
    ELSE "Ok"

claim_prayer_result(w, pid) ==
    IF ~prayers[pid].exists THEN "AccountNotInitialized"
    ELSE IF claims[<<pid, w>>].exists THEN "AccountAlreadyInUse"
    ELSE IF ~agents[w].exists THEN "AccountNotInitialized"
    ELSE IF ~(prayers[pid].status = "Open") THEN "NotOpen"
    ELSE IF ~(now < prayers[pid].expires_at) THEN "Expired"
    ELSE IF ~(prayers[pid].requester # w) THEN "CannotClaimOwn"
    ELSE IF prayers[pid].num_claimers + 1 > MAX_U8 THEN "Panic"
    ELSE "Ok"

\* mutant: filling the last slot does not close the prayer to further claims
claim_status_stays_open(num, maxc, status) == status

\* the status once the claimer count has gone up
claim_status(num, maxc, status) ==
    IF num >= maxc THEN "Active" ELSE status

claim_prayer(w, pid) ==
    LET p == prayers[pid] IN
    /\ claim_prayer_result(w, pid) = "Ok"
    /\ claims' = [claims EXCEPT ![<<pid, w>>] =
          [exists |-> TRUE, prayer_id |-> p.id, claimer |-> w,
           content_delivered |-> FALSE, claimed_at |-> now]]
    /\ prayers' = [prayers EXCEPT ![pid] =
          [p EXCEPT !.num_claimers = p.num_claimers + 1,
                    !.status = claim_status(p.num_claimers + 1, p.max_claimers, p.status)]]
    /\ fresh' = NoFresh
    /\ UNCHANGED <<chain, agents, lamports, now, ticks, escrowed, paid_out, confirmed>>

ClaimPrayer ==
    \E w \in Wallets, pid \in PrayerIds : claim_prayer(w, pid)

\* ---- deliver_content -----------------------------------------------------
\* <<cp, c>> is the Claim account passed: the one of claimer c on prayer cp
deliver_content_result(w, pid, cp, c) ==
    IF ~prayers[pid].exists THEN "AccountNotInitialized"
    ELSE IF ~claims[<<cp, c>>].exists THEN "AccountNotInitialized"
    ELSE IF prayers[pid].requester # w THEN "NotRequester"
    ELSE IF claims[<<cp, c>>].prayer_id # prayers[pid].id THEN "ConstraintSeeds"
    ELSE IF ~(prayers[pid].status \in {"Open", "Active"}) THEN "NotClaimed"
    ELSE IF claims[<<cp, c>>].content_delivered THEN "AlreadyDelivered"
    ELSE "Ok"

deliver_content(w, pid, cp, c) ==
    /\ deliver_content_result(w, pid, cp, c) = "Ok"
    /\ claims' = [claims EXCEPT ![<<cp, c>>].content_delivered = TRUE]
    /\ fresh' = NoFresh
    /\ UNCHANGED <<chain, agents, prayers, lamports, now, ticks, escrowed, paid_out, confirmed>>

DeliverContent ==
    \E w \in Wallets, pid \in PrayerIds, cp \in PrayerIds, c \in Wallets :
        deliver_content(w, pid, cp, c)

\* ---- answer_prayer -------------------------------------------------------
\* mutant: the answerer's Claim account is not required
answer_prayer_result_without_claim(w, pid) ==
    IF ~prayers[pid].exists THEN "AccountNotInitialized"
    ELSE IF ~agents[w].exists THEN "AccountNotInitialized"
    ELSE IF ~(prayers[pid].status \in {"Open", "Active"}) THEN "NotClaimed"
    ELSE IF ~(now < prayers[pid].expires_at) THEN "Expired"
    ELSE "Ok"

answer_prayer_result(w, pid) ==
    IF ~prayers[pid].exists THEN "AccountNotInitialized"
    ELSE IF ~claims[<<pid, w>>].exists THEN "AccountNotInitialized"
    ELSE IF ~agents[w].exists THEN "AccountNotInitialized"
    ELSE IF ~(prayers[pid].status \in {"Open", "Active"}) THEN "NotClaimed"
    ELSE IF ~(now < prayers[pid].expires_at) THEN "Expired"
    ELSE "Ok"

\* mutant: the answer is counted but earns no reputation
answer_prayer_without_reputation(w, pid) ==
    /\ answer_prayer_result(w, pid) = "Ok"
    /\ prayers' = [prayers EXCEPT ![pid].status = "Fulfilled", ![pid].answerer = w]
    /\ agents' = [agents EXCEPT ![w].prayers_answered = @ + 1]
    /\ chain' = [chain EXCEPT !.total_answered = @ + 1]
    /\ fresh' = NoFresh
    /\ UNCHANGED <<claims, lamports, now, ticks, escrowed, paid_out, confirmed>>

answer_prayer(w, pid) ==
    /\ answer_prayer_result(w, pid) = "Ok"
    /\ prayers' = [prayers EXCEPT ![pid].status = "Fulfilled", ![pid].answerer = w]
    /\ agents' = [agents EXCEPT ![w].prayers_answered = @ + 1,
                                ![w].reputation = @ + REP_ANSWER]
    /\ chain' = [chain EXCEPT !.total_answered = @ + 1]
    /\ fresh' = NoFresh
    /\ UNCHANGED <<claims, lamports, now, ticks, escrowed, paid_out, confirmed>>

AnswerPrayer ==
    \E w \in Wallets, pid \in PrayerIds : answer_prayer(w, pid)

\* ---- confirm_prayer ------------------------------------------------------
\* mutant: the reward is not divided among the claimers
reward_per_claimer_undivided(reward, num) ==
    IF reward > 0 /\ num > 0 THEN reward ELSE 0

reward_per_claimer(reward, num) ==
    IF reward > 0 /\ num > 0 THEN reward \div num ELSE 0

\* mutant: the loop pays every account it is given
stop_distribution_never(distributed, per, reward) == FALSE

\* the guard of the distribution loop: stop before paying past the reward
stop_distribution(distributed, per, reward) ==
    distributed + per > reward

\* The loop over remaining_accounts from position i on.  st carries the
\* running total, the prayer account's lamports and the wallets' lamports.
RECURSIVE distribute(_, _, _, _, _)
distribute(payees, i, per, reward, st) ==
    IF i > Len(payees) \/ st.panic THEN st
    ELSE IF stop_distribution(st.distributed, per, reward) THEN st
    ELSE IF per > 0 THEN
        IF st.escrow + PRAYER_RENT < per THEN [st EXCEPT !.panic = TRUE]
        ELSE distribute(payees, i + 1, per, reward,
                 [st EXCEPT !.escrow = @ - per,
                            !.bal[payees[i]] = @ + per,
                            !.distributed = @ + per])
    ELSE distribute(payees, i + 1, per, reward, st)

confirm_outcome(pid, payees) ==
    LET p == prayers[pid]
        per == reward_per_claimer(p.reward_lamports, p.num_claimers) IN
    distribute(payees, 1, per, p.reward_lamports,
               [distributed |-> 0, escrow |-> p.escrow, bal |-> lamports, panic |-> FALSE])

\* the live Claim accounts of a prayer, by claimer
claimers_of(pid) == {c \in Wallets : claims[<<pid, c>>].exists}

\* the payee list names every live claimer of the prayer once and nobody else
payees_are_claimers(pid, payees) ==
    /\ Len(payees) = Cardinality(claimers_of(pid))
    /\ {payees[i] : i \in 1 .. Len(payees)} = claimers_of(pid)

\* mutant: the confirmation is accepted whatever the prayer's status
confirm_prayer_guard_any_status(w, pid) ==
    IF ~prayers[pid].exists THEN "AccountNotInitialized"
    ELSE IF prayers[pid].answerer = NoWallet THEN "AccountNotInitialized"
    ELSE IF prayers[pid].requester # w THEN "NotRequester"
    ELSE "Ok"

\* what the call returns whatever the payee list is, "Ok" if the handler
\* reaches the distribution
confirm_prayer_guard(w, pid) ==
    IF ~prayers[pid].exists THEN "AccountNotInitialized"
    ELSE IF prayers[pid].answerer = NoWallet THEN "AccountNotInitialized"
    ELSE IF prayers[pid].requester # w THEN "NotRequester"
    ELSE IF ~(prayers[pid].status = "Fulfilled") THEN "NotFulfilled"
    ELSE "Ok"

confirm_prayer_result(w, pid, payees) ==
    IF confirm_prayer_guard(w, pid) # "Ok" THEN confirm_prayer_guard(w, pid)
    ELSE IF confirm_outcome(pid, payees).panic THEN "Panic"
    ELSE "Ok"

confirm_prayer(w, pid, payees) ==
    LET p == prayers[pid]
        per == reward_per_claimer(p.reward_lamports, p.num_claimers)
        out == confirm_outcome(pid, payees) IN
    /\ confirm_prayer_result(w, pid, payees) = "Ok"
    /\ prayers' = [prayers EXCEPT ![pid].status = "Confirmed", ![pid].escrow = out.escrow]
    /\ lamports' = out.bal
    /\ agents' = [agents EXCEPT ![p.answerer].prayers_confirmed = @ + 1,
                                ![p.answerer].reputation = @ + REP_CONFIRM]
    /\ paid_out' = [paid_out EXCEPT ![pid] = @ + out.distributed]
    /\ confirmed' = [confirmed EXCEPT ![pid] =
          [emitted |-> TRUE, num_claimers |-> p.num_claimers,
           reward_per_claimer |-> per, reward_total |-> out.distributed,
           payees_are_claimers |-> payees_are_claimers(pid, payees)]]
    /\ fresh' = NoFresh
    /\ UNCHANGED <<chain, claims, now, ticks, escrowed>>

ConfirmPrayer ==
    \E w \in Wallets, pid \in PrayerIds :
        /\ confirm_prayer_guard(w, pid) = "Ok"
        /\ \E payees \in PayeeLists : confirm_prayer(w, pid, payees)

\* ---- cancel_prayer -------------------------------------------------------
\* mutant: live claims do not stop the cancellation
cancel_prayer_result_ignores_claimers(w, pid) ==
    IF ~prayers[pid].exists THEN "AccountNotInitialized"
    ELSE IF prayers[pid].requester # w THEN "NotRequester"
    ELSE IF ~(prayers[pid].status = "Open") THEN "CannotCancel"
    ELSE IF prayers[pid].reward_lamports > 0
            /\ prayers[pid].escrow + PRAYER_RENT < prayers[pid].reward_lamports THEN "Panic"
    ELSE "Ok"

cancel_prayer_result(w, pid) ==
    IF ~prayers[pid].exists THEN "AccountNotInitialized"
    ELSE IF prayers[pid].requester # w THEN "NotRequester"
    ELSE IF ~(prayers[pid].status = "Open") THEN "CannotCancel"
    ELSE IF ~(prayers[pid].num_claimers = 0) THEN "HasClaimers"
    ELSE IF prayers[pid].reward_lamports > 0
            /\ prayers[pid].escrow + PRAYER_RENT < prayers[pid].reward_lamports THEN "Panic"
    ELSE "Ok"

\* mutant: the refund is credited to the requester but not taken off the prayer
cancel_prayer_keeps_escrow(w, pid) ==
    LET p == prayers[pid] IN
    /\ cancel_prayer_result(w, pid) = "Ok"
    /\ prayers' = [prayers EXCEPT ![pid].status = "Cancelled"]
    /\ lamports' = [lamports EXCEPT ![w] = @ + p.reward_lamports]
    /\ paid_out' = [paid_out EXCEPT ![pid] = @ + p.reward_lamports]
    /\ fresh' = NoFresh
    /\ UNCHANGED <<chain, agents, claims, now, ticks, escrowed, confirmed>>

\* mutant: the reward is taken off the prayer twice
cancel_prayer_debits_twice(w, pid) ==
    LET p == prayers[pid] IN
    /\ cancel_prayer_result(w, pid) = "Ok"
    /\ prayers' = [prayers EXCEPT ![pid].status = "Cancelled",
                                  ![pid].escrow = @ - 2 * p.reward_lamports]
    /\ lamports' = [lamports EXCEPT ![w] = @ + p.reward_lamports]
    /\ paid_out' = [paid_out EXCEPT ![pid] = @ + p.reward_lamports]
    /\ fresh' = NoFresh
    /\ UNCHANGED <<chain, agents, claims, now, ticks, escrowed, confirmed>>

cancel_prayer(w, pid) ==
    LET p == prayers[pid] IN
    /\ cancel_prayer_result(w, pid) = "Ok"
    /\ prayers' = [prayers EXCEPT ![pid].status = "Cancelled",
                                  ![pid].escrow = @ - p.reward_lamports]
    /\ lamports' = [lamports EXCEPT ![w] = @ + p.reward_lamports]
    /\ paid_out' = [paid_out EXCEPT ![pid] = @ + p.reward_lamports]
    /\ fresh' = NoFresh
    /\ UNCHANGED <<chain, agents, claims, now, ticks, escrowed, confirmed>>

CancelPrayer ==
    \E w \in Wallets, pid \in PrayerIds : cancel_prayer(w, pid)

\* ---- unclaim_prayer ------------------------------------------------------
\* mutant: the caller is compared with the prayer's requester
is_claimer_is_requester(w, cp, c) == prayers[cp].requester = w

is_claimer(w, cp, c) == claims[<<cp, c>>].claimer = w

\* mutant: the claim counts as stale from the timeout itself on
claim_expired_at_timeout(cp, c) ==
    now >= claims[<<cp, c>>].claimed_at + CLAIM_TIMEOUT_SECONDS

claim_expired(cp, c) == now > claims[<<cp, c>>].claimed_at + CLAIM_TIMEOUT_SECONDS

\* mutant: removing a claim leaves the status as it was
unclaim_status_kept(status) == status

\* the status once a claim has been removed
unclaim_status(status) ==
    IF status = "Active" THEN "Open" ELSE status

\* mutant: a claim can be removed whatever the prayer's status
unclaim_prayer_result_any_status(w, pid, cp, c, cw) ==
    IF ~prayers[pid].exists THEN "AccountNotInitialized"
    ELSE IF ~claims[<<cp, c>>].exists THEN "AccountNotInitialized"
    ELSE IF claims[<<cp, c>>].prayer_id # prayers[pid].id THEN "ConstraintSeeds"
    ELSE IF cw # claims[<<cp, c>>].claimer THEN "NotClaimer"
    ELSE IF ~(is_claimer(w, cp, c) \/ claim_expired(cp, c)) THEN "NotClaimer"
    ELSE IF prayers[pid].num_claimers < 1 THEN "Panic"
    ELSE "Ok"

\* <<cp, c>> is the Claim account passed, cw the claimer_wallet account that
\* receives the closed Claim's rent
unclaim_prayer_result(w, pid, cp, c, cw) ==
    IF ~prayers[pid].exists THEN "AccountNotInitialized"
    ELSE IF ~claims[<<cp, c>>].exists THEN "AccountNotInitialized"
    ELSE IF claims[<<cp, c>>].prayer_id # prayers[pid].id THEN "ConstraintSeeds"
    ELSE IF cw # claims[<<cp, c>>].claimer THEN "NotClaimer"
    ELSE IF ~(prayers[pid].status \in {"Open", "Active"}) THEN "NotClaimed"
    ELSE IF ~(is_claimer(w, cp, c) \/ claim_expired(cp, c)) THEN "NotClaimer"
    ELSE IF prayers[pid].num_claimers < 1 THEN "Panic"
    ELSE "Ok"

unclaim_prayer(w, pid, cp, c, cw) ==
    /\ unclaim_prayer_result(w, pid, cp, c, cw) = "Ok"
    /\ prayers' = [prayers EXCEPT ![pid].num_claimers = @ - 1,
                                  ![pid].status = unclaim_status(@)]
    /\ claims' = [claims EXCEPT ![<<cp, c>>] = NoClaim]
    /\ fresh' = NoFresh
    /\ UNCHANGED <<chain, agents, lamports, now, ticks, escrowed, paid_out, confirmed>>

UnclaimPrayer ==
    \E w \in Wallets, pid \in PrayerIds, cp \in PrayerIds, c \in Wallets, cw \in Wallets :
        unclaim_prayer(w, pid, cp, c, cw)

\* ---- close_prayer --------------------------------------------------------
is_terminal(pid) == prayers[pid].status \in {"Confirmed", "Cancelled"}

\* mutant: a prayer whose slots are all taken never counts as expired
is_expired_open_only(pid) ==
    now > prayers[pid].expires_at /\ prayers[pid].status \in {"Open"}

\* mutant: the prayer counts as expired from expires_at itself on
is_expired_at_deadline(pid) ==
    now >= prayers[pid].expires_at /\ prayers[pid].status \in {"Open", "Active"}

is_expired(pid) ==
    now > prayers[pid].expires_at /\ prayers[pid].status \in {"Open", "Active"}

close_prayer_result(w, pid) ==
    IF ~prayers[pid].exists THEN "AccountNotInitialized"
    ELSE IF prayers[pid].requester # w THEN "NotRequester"
    ELSE IF ~(is_terminal(pid) \/ is_expired(pid)) THEN "CannotClose"
    ELSE IF is_expired(pid) /\ prayers[pid].reward_lamports > 0
            /\ prayers[pid].escrow + PRAYER_RENT < prayers[pid].reward_lamports THEN "Panic"
    ELSE "Ok"

\* what the handler itself refunds before the account is closed
close_refund(pid) ==
    IF is_expired(pid) /\ prayers[pid].reward_lamports > 0
    THEN prayers[pid].reward_lamports ELSE 0

\* mutant: closing the account moves nothing but the rent
close_sweep_rent_only(pid) == 0

\* what the `close = requester` constraint moves when the account is closed:
\* everything the account still holds
close_sweep(pid) == prayers[pid].escrow - close_refund(pid)

close_prayer(w, pid) ==
    /\ close_prayer_result(w, pid) = "Ok"
    /\ lamports' = [lamports EXCEPT ![w] = @ + close_refund(pid) + close_sweep(pid)]
    /\ paid_out' = [paid_out EXCEPT ![pid] = @ + close_refund(pid) + close_sweep(pid)]
    /\ prayers' = [prayers EXCEPT ![pid] = NoPrayer]
    /\ fresh' = NoFresh
    /\ UNCHANGED <<chain, agents, claims, now, ticks, escrowed, confirmed>>

ClosePrayer ==
    \E w \in Wallets, pid \in PrayerIds : close_prayer(w, pid)

Next ==
    \/ Tick
    \/ RegisterAgent
    \/ PostPrayer
    \/ ClaimPrayer
    \/ DeliverContent
    \/ AnswerPrayer
    \/ ConfirmPrayer
    \/ CancelPrayer
    \/ UnclaimPrayer
    \/ ClosePrayer

Spec == Init /\ [][Next]_vars

\* ---- calls that return an error ----------------------------------------
\* An instruction that returns an error (or panics) is aborted by the
\* runtime: every account it created or wrote is restored.  <name>_partial
\* is what the call had written when it failed: an `init` account of the
\* Accounts context is created before the handler's first require!.
\* mutant: the writes of a failed instruction are kept
runtime_abort_keeps_writes(pre, written) == written

runtime_abort(pre, written) == pre

ZeroAgent ==
    [exists |-> TRUE, prayers_posted |-> 0, prayers_answered |-> 0,
     prayers_confirmed |-> 0, reputation |-> 0]

ZeroClaim ==
    [exists |-> TRUE, prayer_id |-> 0, claimer |-> NoWallet,
     content_delivered |-> FALSE, claimed_at |-> 0]

register_agent_partial(w, nameLen, skillsLen, keyZero) ==
    IF agents[w].exists THEN agents
    ELSE [agents EXCEPT ![w] = ZeroAgent]

register_agent_fails(w, nameLen, skillsLen, keyZero) ==
    /\ register_agent_result(w, nameLen, skillsLen, keyZero) # "Ok"
    /\ agents' = runtime_abort(agents, register_agent_partial(w, nameLen, skillsLen, keyZero))
    /\ UNCHANGED <<chain, prayers, claims, lamports, now, ticks, escrowed, paid_out,
                   confirmed, fresh>>

\* the Prayer account is created once requester_agent has loaded; the handler
\* has filled it in when the escrow transfer fails
post_prayer_partial(w, reward, ttl, maxc) ==
    LET id == chain.total_prayers IN
    IF ~agents[w].exists THEN prayers
    ELSE IF post_prayer_result(w, reward, ttl, maxc) = "InsufficientFunds"
    THEN [prayers EXCEPT ![id] =
            [exists |-> TRUE, id |-> id, requester |-> w, reward_lamports |-> reward,
             status |-> "Open", max_claimers |-> maxc, num_claimers |-> 0,
             answerer |-> NoWallet, expires_at |-> now + ttl, escrow |-> 0]]
    ELSE [prayers EXCEPT ![id] =
            [exists |-> TRUE, id |-> 0, requester |-> NoWallet, reward_lamports |-> 0,
             status |-> "Open", max_claimers |-> 0, num_claimers |-> 0,
             answerer |-> NoWallet, expires_at |-> 0, escrow |-> 0]]

post_prayer_fails(w, reward, ttl, maxc) ==
    /\ chain.total_prayers < MaxPrayers
    /\ post_prayer_result(w, reward, ttl, maxc) # "Ok"
    /\ prayers' = runtime_abort(prayers, post_prayer_partial(w, reward, ttl, maxc))
    /\ UNCHANGED <<chain, agents, claims, lamports, now, ticks, escrowed, paid_out,
                   confirmed, fresh>>

\* the Claim account is created once the Prayer account has loaded, before
\* claimer_agent is looked at
claim_prayer_partial(w, pid) ==
    IF ~prayers[pid].exists \/ claims[<<pid, w>>].exists THEN claims
    ELSE [claims EXCEPT ![<<pid, w>>] = ZeroClaim]

claim_prayer_fails(w, pid) ==
    /\ claim_prayer_result(w, pid) # "Ok"
    /\ claims' = runtime_abort(claims, claim_prayer_partial(w, pid))
    /\ UNCHANGED <<chain, agents, prayers, lamports, now, ticks, escrowed, paid_out,
                   confirmed, fresh>>

\* the payments made before a checked_sub in the loop panics
confirm_prayer_partial(w, pid, payees) ==
    IF confirm_prayer_guard(w, pid) = "Ok" THEN confirm_outcome(pid, payees).bal
    ELSE lamports

confirm_prayer_fails(w, pid, payees) ==
    /\ confirm_prayer_result(w, pid, payees) # "Ok"
    /\ lamports' = runtime_abort(lamports, confirm_prayer_partial(w, pid, payees))
    /\ UNCHANGED <<chain, agents, prayers, claims, now, ticks, escrowed, paid_out,
                   confirmed, fresh>>

\* these handlers fail in account validation or in a require! that comes
\* before their first write
deliver_content_fails(w, pid, cp, c) ==
    /\ deliver_content_result(w, pid, cp, c) # "Ok"
    /\ UNCHANGED vars

answer_prayer_fails(w, pid) ==
    /\ answer_prayer_result(w, pid) # "Ok"
    /\ UNCHANGED vars

cancel_prayer_fails(w, pid) ==
    /\ cancel_prayer_result(w, pid) # "Ok"
    /\ UNCHANGED vars

unclaim_prayer_fails(w, pid, cp, c, cw) ==
    /\ unclaim_prayer_result(w, pid, cp, c, cw) # "Ok"
    /\ UNCHANGED vars

close_prayer_fails(w, pid) ==
    /\ close_prayer_result(w, pid) # "Ok"
    /\ UNCHANGED vars

RegisterAgentFails ==
    \E w \in Wallets, nl \in NameLenInputs, sl \in SkillsLenInputs, kz \in BOOLEAN :
        register_agent_fails(w, nl, sl, kz)

PostPrayerFails ==
    \E w \in Wallets, reward \in RewardInputs, ttl \in TtlInputs, maxc \in MaxClaimersInputs :
        post_prayer_fails(w, reward, ttl, maxc)

ClaimPrayerFails ==
    \E w \in Wallets, pid \in PrayerIds : claim_prayer_fails(w, pid)

DeliverContentFails ==
    \E w \in Wallets, pid \in PrayerIds, cp \in PrayerIds, c \in Wallets :
        deliver_content_fails(w, pid, cp, c)

AnswerPrayerFails ==
    \E w \in Wallets, pid \in PrayerIds : answer_prayer_fails(w, pid)

ConfirmPrayerFails ==
    \E w \in Wallets, pid \in PrayerIds, payees \in ShortPayeeLists :
        confirm_prayer_fails(w, pid, payees)

CancelPrayerFails ==
    \E w \in Wallets, pid \in PrayerIds : cancel_prayer_fails(w, pid)

UnclaimPrayerFails ==
    \E w \in Wallets, pid \in PrayerIds, cp \in PrayerIds, c \in Wallets, cw \in Wallets :
        unclaim_prayer_fails(w, pid, cp, c, cw)

ClosePrayerFails ==
    \E w \in Wallets, pid \in PrayerIds : close_prayer_fails(w, pid)

\* every call, accepted or not
NextCalls ==
    \/ Next
    \/ RegisterAgentFails
    \/ PostPrayerFails
    \/ ClaimPrayerFails
    \/ DeliverContentFails
    \/ AnswerPrayerFails
    \/ ConfirmPrayerFails
    \/ CancelPrayerFails
    \/ UnclaimPrayerFails
    \/ ClosePrayerFails

SpecCalls == Init /\ [][NextCalls]_vars

\* ---- posting alone -------------------------------------------------------
\* The instructions that create and destroy Prayer accounts, with room for
\* MaxPosts prayers: agents register, post, cancel what they posted and
\* close it; nobody claims.
InitPosts ==
    /\ chain = [total_prayers |-> 0, total_answered |-> 0, total_agents |-> 0]
    /\ agents = [w \in Wallets |-> NoAgent]
    /\ prayers = [p \in PostIds |-> NoPrayer]
    /\ claims = [k \in PostIds \X Wallets |-> NoClaim]
    /\ lamports = [w \in Wallets |-> InitLamports]
    /\ now = 0
    /\ ticks = 0
    /\ escrowed = [p \in PostIds |-> 0]
    /\ paid_out = [p \in PostIds |-> 0]
    /\ confirmed = [p \in PostIds |-> NoEvent]
    /\ fresh = NoFresh

CancelPosted ==
    \E w \in Wallets, pid \in PostIds : cancel_prayer(w, pid)

ClosePosted ==
    \E w \in Wallets, pid \in PostIds : close_prayer(w, pid)

NextPosts ==
    \/ RegisterAgent
    \/ PostPrayer
    \/ CancelPosted
    \/ ClosePosted

SpecPosts == InitPosts /\ [][NextPosts]_vars

\* ---- steps, as the accounts show them ----------------------------------
\* confirm_prayer has just succeeded on pid
ConfirmStep(pid) ==
    /\ prayers[pid].exists /\ prayers[pid].status = "Fulfilled"
    /\ prayers'[pid].exists /\ prayers'[pid].status = "Confirmed"

\* cancel_prayer has just succeeded on pid
CancelStep(pid) ==
    /\ prayers[pid].exists /\ prayers[pid].status = "Open"
    /\ prayers'[pid].exists /\ prayers'[pid].status = "Cancelled"

\* close_prayer has just succeeded on pid
CloseStep(pid) == prayers[pid].exists /\ ~prayers'[pid].exists

\* claim_prayer by w has just succeeded on pid
ClaimStep(pid, w) == ~claims[<<pid, w>>].exists /\ claims'[<<pid, w>>].exists

\* unclaim_prayer has just removed the claim of c on pid
UnclaimStep(pid, c) == claims[<<pid, c>>].exists /\ ~claims'[<<pid, c>>].exists

\* post_prayer has just created pid
PostStep(pid) == ~prayers[pid].exists /\ prayers'[pid].exists

\* answer_prayer has just succeeded on pid
AnswerStep(pid) ==
    /\ prayers[pid].exists /\ prayers[pid].status \in {"Open", "Active"}
    /\ prayers'[pid].exists /\ prayers'[pid].status = "Fulfilled"

\* deliver_content has just succeeded on the claim of c on pid
DeliverStep(pid, c) ==
    /\ claims[<<pid, c>>].exists /\ ~claims[<<pid, c>>].content_delivered
    /\ claims'[<<pid, c>>].exists /\ claims'[<<pid, c>>].content_delivered

\* register_agent has just succeeded for w
RegisterStep(w) == ~agents[w].exists /\ agents'[w].exists

\* ---- C1 ------------------------------------------------------------------
\* C1: for every prayer, whatever instructions were called by whoever,
\* 0 <= num_claimers <= max_claimers <= 10.
C1_ClaimersWithinBounds ==
    \A pid \in PrayerIds :
        prayers[pid].exists =>
            /\ 0 <= prayers[pid].num_claimers
            /\ prayers[pid].num_claimers <= prayers[pid].max_claimers
            /\ prayers[pid].max_claimers <= MAX_CLAIMERS_LIMIT

\* a prayer with both of its two slots filled, one of them claimed after the
\* clock had advanced
C1_Witness ==
    \E pid \in PrayerIds :
        /\ prayers[pid].exists
        /\ prayers[pid].max_claimers = 2
        /\ prayers[pid].num_claimers = 2
        /\ \E c \in Wallets : claims[<<pid, c>>].exists /\ claims[<<pid, c>>].claimed_at > 0

\* ---- C2 ------------------------------------------------------------------
\* C2: for every prayer, the value ever moved out of its escrow (confirm's
\* payments, cancel's and close's refunds) never exceeds the reward escrowed
\* at post_prayer, whatever payee list confirm_prayer is given.
C2_PaidOutWithinEscrow ==
    \A pid \in PrayerIds : paid_out[pid] <= escrowed[pid]

\* a prayer confirmed with a payee list other than its claimers, then closed,
\* whose whole reward has left the account
C2_Witness ==
    \E pid \in PrayerIds :
        /\ confirmed[pid].emitted
        /\ ~confirmed[pid].payees_are_claimers
        /\ confirmed[pid].reward_total > 0
        /\ ~prayers[pid].exists
        /\ escrowed[pid] > 0
        /\ paid_out[pid] = escrowed[pid]

\* ---- C3 ------------------------------------------------------------------
\* C3: confirm_prayer pays only addresses that hold a live Claim for the
\* prayer, and makes no more than num_claimers payments.
C3_OnlyClaimersArePaid ==
    [][\A pid \in PrayerIds :
          ConfirmStep(pid) =>
              /\ \A w \in Wallets :
                    lamports'[w] > lamports[w] => claims[<<pid, w>>].exists
              /\ confirmed'[pid].reward_total
                    <= prayers[pid].num_claimers * confirmed'[pid].reward_per_claimer]_vars

\* ---- C4 ------------------------------------------------------------------
\* C4: when confirm_prayer is given exactly the n = num_claimers live claimers
\* of a Fulfilled prayer with reward R, each claimer receives R div n, the
\* total paid is n * (R div n) and R mod n stays in the prayer's account.
C4_EqualSplitWithRemainder ==
    [][\A pid \in PrayerIds :
          (ConfirmStep(pid) /\ confirmed'[pid].payees_are_claimers) =>
              LET R == prayers[pid].reward_lamports
                  n == prayers[pid].num_claimers IN
              /\ n = Cardinality(claimers_of(pid))
              /\ \A c \in claimers_of(pid) : lamports'[c] = lamports[c] + (R \div n)
              /\ \A w \in Wallets \ claimers_of(pid) : lamports'[w] = lamports[w]
              /\ confirmed'[pid].reward_total = n * (R \div n)
              /\ prayers'[pid].escrow = R % n]_vars

\* two claimers were paid 1 each out of a reward of 3, and 1 is left
C4_Witness ==
    \E pid \in PrayerIds :
        /\ prayers[pid].exists /\ prayers[pid].status = "Confirmed"
        /\ confirmed[pid].payees_are_claimers
        /\ prayers[pid].num_claimers = 2
        /\ prayers[pid].reward_lamports = 3
        /\ confirmed[pid].reward_per_claimer = 1
        /\ confirmed[pid].reward_total = 2
        /\ prayers[pid].escrow = 1
        /\ \A c \in claimers_of(pid) : lamports[c] = InitLamports + 1

\* ---- C5 ------------------------------------------------------------------
\* C5 as stated: claim_prayer on an Active prayer always fails with NotOpen,
\* whoever calls it.
C5_Original ==
    \A pid \in PrayerIds, w \in Wallets :
        (prayers[pid].exists /\ prayers[pid].status = "Active") =>
            claim_prayer_result(w, pid) = "NotOpen"

C5_ActiveRejectsClaims ==
    \A pid \in PrayerIds, w \in Wallets :
        (prayers[pid].exists /\ prayers[pid].status = "Active") =>
            /\ prayers[pid].num_claimers = prayers[pid].max_claimers
            /\ claim_prayer_result(w, pid) # "Ok"
            /\ (agents[w].exists /\ ~claims[<<pid, w>>].exists) =>
                    claim_prayer_result(w, pid) = "NotOpen"

C5_LastSlotRace ==
    \A pid \in PrayerIds, a \in Wallets : \A b \in Wallets \ {a} :
        (/\ prayers[pid].exists
         /\ prayers[pid].num_claimers + 1 = prayers[pid].max_claimers
         /\ claim_prayer_result(a, pid) = "Ok"
         /\ claim_prayer_result(b, pid) = "Ok"
         /\ ClaimStep(pid, a)) =>
            /\ prayers'[pid].num_claimers = prayers[pid].max_claimers
            /\ claim_prayer_result(b, pid)' = "NotOpen"

\* C5 (amended): claim_prayer on an Active prayer (num_claimers ==
\* max_claimers) always fails, with NotOpen when the caller is a registered
\* agent holding no Claim for the prayer (the Accounts context rejects any
\* other caller first); so when two agents who could both claim race for the
\* last free slot, the one that comes second fails with NotOpen and
\* num_claimers stays at max_claimers.
C5_ClaimOnActiveFails ==
    []C5_ActiveRejectsClaims /\ [][C5_LastSlotRace]_vars

\* an Active, unexpired prayer and a registered agent without a claim who is
\* not its requester: only the status stands in the way
C5_Witness ==
    \E pid \in PrayerIds, w \in Wallets :
        /\ prayers[pid].exists /\ prayers[pid].status = "Active"
        /\ prayers[pid].num_claimers = prayers[pid].max_claimers
        /\ now < prayers[pid].expires_at
        /\ agents[w].exists /\ ~claims[<<pid, w>>].exists
        /\ prayers[pid].requester # w
        /\ claim_prayer_result(w, pid) = "NotOpen"

\* ---- C6 ------------------------------------------------------------------
\* C6 as stated: once now > expires_at the requester's close_prayer succeeds
\* on every prayer that is not Confirmed or Cancelled.
C6_Original ==
    \A pid \in PrayerIds :
        (/\ prayers[pid].exists
         /\ prayers[pid].status \notin {"Confirmed", "Cancelled"}
         /\ now > prayers[pid].expires_at) =>
            close_prayer_result(prayers[pid].requester, pid) = "Ok"

C6_ExpiredCloseAllowed ==
    \A pid \in PrayerIds :
        (prayers[pid].exists /\ now > prayers[pid].expires_at) =>
            /\ prayers[pid].status \in {"Open", "Active"} =>
                    close_prayer_result(prayers[pid].requester, pid) = "Ok"
            /\ prayers[pid].status = "Fulfilled" =>
                    close_prayer_result(prayers[pid].requester, pid) = "CannotClose"

C6_ExpiredCloseRefunds ==
    \A pid \in PrayerIds :
        (CloseStep(pid) /\ prayers[pid].status \in {"Open", "Active"}) =>
            /\ now > prayers[pid].expires_at
            /\ prayers[pid].escrow = prayers[pid].reward_lamports
            /\ lamports'[prayers[pid].requester]
                  = lamports[prayers[pid].requester] + prayers[pid].escrow
            /\ \A w \in Wallets \ {prayers[pid].requester} : lamports'[w] = lamports[w]

\* C6 (amended): once now > expires_at, close_prayer called by the requester
\* succeeds on every prayer whose status is Open or Active, and then the
\* escrowed balance is refunded to the requester and the Prayer record is
\* destroyed; on a Fulfilled prayer it fails with CannotClose, expired or not.
C6_CloseAfterExpiry ==
    []C6_ExpiredCloseAllowed /\ [][C6_ExpiredCloseRefunds]_vars

\* a prayer closed after expiry while a claim on it was live: its reward is
\* back with the requester
C6_Witness ==
    \E pid \in PrayerIds, c \in Wallets :
        /\ pid < chain.total_prayers /\ ~prayers[pid].exists
        /\ claims[<<pid, c>>].exists
        /\ ~confirmed[pid].emitted
        /\ escrowed[pid] = 3 /\ paid_out[pid] = 3
        /\ \A w \in Wallets : lamports[w] = InitLamports

\* ---- C7 ------------------------------------------------------------------
\* C7 as stated: while the status is neither Confirmed nor Cancelled and
\* now <= expires_at, close_prayer fails with CannotClose, whoever calls it.
C7_Original ==
    \A pid \in PrayerIds, w \in Wallets :
        (/\ prayers[pid].exists
         /\ prayers[pid].status \notin {"Confirmed", "Cancelled"}
         /\ now <= prayers[pid].expires_at) =>
            close_prayer_result(w, pid) = "CannotClose"

\* C7 (amended): while the status is neither Confirmed nor Cancelled and
\* now <= expires_at, close_prayer always fails and changes nothing: with
\* CannotClose when the requester calls it, with NotRequester for any other
\* caller.
C7_CloseBeforeExpiryFails ==
    \A pid \in PrayerIds, w \in Wallets :
        (/\ prayers[pid].exists
         /\ prayers[pid].status \notin {"Confirmed", "Cancelled"}
         /\ now <= prayers[pid].expires_at) =>
            close_prayer_result(w, pid) =
                IF w = prayers[pid].requester THEN "CannotClose" ELSE "NotRequester"

\* an Active prayer with escrow at the very second it expires: the requester
\* is still refused
C7_Witness ==
    \E pid \in PrayerIds :
        /\ prayers[pid].exists /\ prayers[pid].status = "Active"
        /\ prayers[pid].escrow > 0
        /\ now = prayers[pid].expires_at
        /\ close_prayer_result(prayers[pid].requester, pid) = "CannotClose"

\* ---- C8 ------------------------------------------------------------------
\* C8 as stated: unclaim_prayer by the claim's own claimer succeeds at any
\* time, and by anyone once now > claimed_at + 3600.
C8_Original ==
    \A pid \in PrayerIds, c \in Wallets :
        (prayers[pid].exists /\ claims[<<pid, c>>].exists) =>
            /\ unclaim_prayer_result(c, pid, pid, c, c) = "Ok"
            /\ now > claims[<<pid, c>>].claimed_at + CLAIM_TIMEOUT_SECONDS =>
                    \A w \in Wallets : unclaim_prayer_result(w, pid, pid, c, c) = "Ok"

C8_UnclaimAllowed ==
    \A pid \in PrayerIds, c \in Wallets :
        (prayers[pid].exists /\ claims[<<pid, c>>].exists) =>
            IF prayers[pid].status \in {"Open", "Active"}
            THEN /\ unclaim_prayer_result(c, pid, pid, c, c) = "Ok"
                 /\ now > claims[<<pid, c>>].claimed_at + CLAIM_TIMEOUT_SECONDS =>
                        \A w \in Wallets : unclaim_prayer_result(w, pid, pid, c, c) = "Ok"
            ELSE \A w \in Wallets : unclaim_prayer_result(w, pid, pid, c, c) = "NotClaimed"

C8_UnclaimRemoves ==
    \A pid \in PrayerIds, c \in Wallets :
        UnclaimStep(pid, c) =>
            /\ prayers[pid].status \in {"Open", "Active"}
            /\ prayers'[pid].num_claimers = prayers[pid].num_claimers - 1
            /\ prayers'[pid].status = "Open"

\* C8 (amended): while the Prayer record exists with status Open or Active
\* (and the claim's claimer is passed as claimer_wallet), unclaim_prayer by
\* the claim's own claimer always succeeds, and by any other caller once
\* now > claimed_at + 3600; on success the Claim record is destroyed and
\* num_claimers is decremented by one.  In any other status unclaim_prayer
\* fails with NotClaimed for every caller.
C8_UnclaimSucceeds ==
    []C8_UnclaimAllowed /\ [][C8_UnclaimRemoves]_vars

\* a stale claim on an Active prayer that a registered agent other than the
\* claimer may sweep, one second after the timeout
C8_Witness ==
    \E pid \in PrayerIds, c \in Wallets : \E w \in Wallets \ {c} :
        /\ prayers[pid].exists /\ prayers[pid].status = "Active"
        /\ claims[<<pid, c>>].exists
        /\ now = claims[<<pid, c>>].claimed_at + CLAIM_TIMEOUT_SECONDS + 1
        /\ unclaim_prayer_result(w, pid, pid, c, c) = "Ok"
        /\ unclaim_prayer_result(c, pid, pid, c, c) = "Ok"

\* ---- C9 ------------------------------------------------------------------
\* C9 as stated: unclaim_prayer by anyone but the claimer, while
\* now <= claimed_at + 3600, fails with NotClaimer.
C9_Original ==
    \A pid \in PrayerIds, c \in Wallets : \A w \in Wallets \ {c} :
        (/\ prayers[pid].exists /\ claims[<<pid, c>>].exists
         /\ now <= claims[<<pid, c>>].claimed_at + CLAIM_TIMEOUT_SECONDS) =>
            unclaim_prayer_result(w, pid, pid, c, c) = "NotClaimer"

\* C9 (amended): unclaim_prayer by a caller who is not the claim's claimer,
\* while now <= claimed_at + 3600, always fails and changes nothing: with
\* NotClaimer while the prayer is Open or Active, and with NotClaimed once
\* it is Fulfilled or Confirmed (the status is checked first).
C9_EarlySweepFails ==
    \A pid \in PrayerIds, c \in Wallets : \A w \in Wallets \ {c}, cw \in Wallets :
        (/\ prayers[pid].exists /\ claims[<<pid, c>>].exists
         /\ now <= claims[<<pid, c>>].claimed_at + CLAIM_TIMEOUT_SECONDS) =>
            unclaim_prayer_result(w, pid, pid, c, cw) =
                IF prayers[pid].status \in {"Open", "Active"} \/ cw # c
                THEN "NotClaimer" ELSE "NotClaimed"

\* a registered agent other than the claimer tries at exactly
\* claimed_at + 3600 on an Open prayer
C9_Witness ==
    \E pid \in PrayerIds, c \in Wallets : \E w \in Wallets \ {c} :
        /\ prayers[pid].exists /\ prayers[pid].status = "Open"
        /\ claims[<<pid, c>>].exists
        /\ agents[w].exists
        /\ now = claims[<<pid, c>>].claimed_at + CLAIM_TIMEOUT_SECONDS
        /\ unclaim_prayer_result(w, pid, pid, c, c) = "NotClaimer"

\* ---- C10 -----------------------------------------------------------------
C10_PostEscrowsReward ==
    fresh.posted =>
        LET p == prayers[fresh.pid] IN
        /\ p.exists /\ p.status = "Open" /\ p.num_claimers = 0
        /\ p.escrow = p.reward_lamports
        /\ lamports[p.requester] = fresh.balance_before - p.reward_lamports
        /\ cancel_prayer_result(p.requester, fresh.pid) = "Ok"

C10_CancelRefundsReward ==
    \A pid \in PrayerIds :
        (fresh.posted /\ fresh.pid = pid /\ CancelStep(pid)) =>
            /\ prayers'[pid].escrow = 0
            /\ lamports'[prayers[pid].requester] = fresh.balance_before

\* C10: post_prayer with reward R followed at once by cancel_prayer by the
\* same requester succeeds, sets the status to Cancelled and returns exactly
\* R: the requester's balance is what it was before the post and the prayer
\* holds no escrow.
C10_PostThenCancel ==
    []C10_PostEscrowsReward /\ [][C10_CancelRefundsReward]_vars

\* a prayer with reward 3 cancelled when its requester was the only agent
\* registered, so that nobody can have claimed it
C10_Witness ==
    \E pid \in PrayerIds :
        /\ prayers[pid].exists /\ prayers[pid].status = "Cancelled"
        /\ prayers[pid].reward_lamports = 3
        /\ prayers[pid].escrow = 0
        /\ chain.total_agents = 1
        /\ lamports[prayers[pid].requester] = InitLamports

\* ---- C11 -----------------------------------------------------------------
C11_TerminalRejectsAll ==
    \A pid \in PrayerIds :
        (prayers[pid].exists /\ is_terminal(pid)) =>
            \A w \in Wallets :
                /\ claim_prayer_result(w, pid) # "Ok"
                /\ answer_prayer_result(w, pid) # "Ok"
                /\ cancel_prayer_result(w, pid) # "Ok"
                /\ \A payees \in PayeeLists : confirm_prayer_result(w, pid, payees) # "Ok"
                /\ \A cp \in PrayerIds, c \in Wallets :
                        /\ deliver_content_result(w, pid, cp, c) # "Ok"
                        /\ \A cw \in Wallets : unclaim_prayer_result(w, pid, cp, c, cw) # "Ok"

C11_TerminalStatusKept ==
    \A pid \in PrayerIds :
        (prayers[pid].exists /\ is_terminal(pid)) =>
            \/ ~prayers'[pid].exists
            \/ prayers'[pid] = prayers[pid]

\* C11: once a prayer's status is Confirmed or Cancelled no instruction
\* changes it again: claim_prayer, unclaim_prayer, deliver_content,
\* answer_prayer, confirm_prayer and cancel_prayer fail on it for every caller
\* and every input, and a step either leaves the record as it is or (close_prayer)
\* removes it.
C11_TerminalIsFinal ==
    []C11_TerminalRejectsAll /\ [][C11_TerminalStatusKept]_vars

\* a Confirmed prayer with a live claim, where the requester could close and
\* the claimer is refused the unclaim
C11_Witness ==
    \E pid \in PrayerIds, c \in Wallets :
        /\ prayers[pid].exists /\ prayers[pid].status = "Confirmed"
        /\ claims[<<pid, c>>].exists
        /\ unclaim_prayer_result(c, pid, pid, c, c) = "NotClaimed"
        /\ confirm_prayer_result(prayers[pid].requester, pid, <<c>>) = "NotFulfilled"
        /\ close_prayer_result(prayers[pid].requester, pid) = "Ok"

\* ---- C12 -----------------------------------------------------------------
\* C12: in every reachable state, for every prayer whose status is Open or
\* Active, the status is Active if and only if num_claimers = max_claimers.
C12_ActiveIffFull ==
    \A pid \in PrayerIds :
        (prayers[pid].exists /\ prayers[pid].status \in {"Open", "Active"}) =>
            (prayers[pid].status = "Active"
                <=> prayers[pid].num_claimers = prayers[pid].max_claimers)

\* a prayer with two slots, both taken
C12_Witness ==
    \E pid \in PrayerIds :
        /\ prayers[pid].exists /\ prayers[pid].status = "Active"
        /\ prayers[pid].max_claimers = 2
        /\ prayers[pid].num_claimers = 2

\* ---- C13 -----------------------------------------------------------------
C13_AnswerNeedsLiveClaim ==
    \A pid \in PrayerIds, w \in Wallets :
        answer_prayer_result(w, pid) = "Ok" =>
            /\ claims[<<pid, w>>].exists
            /\ claims[<<pid, w>>].claimer = w
            /\ claims[<<pid, w>>].prayer_id = prayers[pid].id

C13_AnswererSetFromClaim ==
    \A pid \in PrayerIds :
        (prayers[pid].exists /\ prayers'[pid].exists) =>
            IF prayers[pid].answerer = NoWallet
            THEN prayers'[pid].answerer # NoWallet =>
                    /\ claims[<<pid, prayers'[pid].answerer>>].exists
                    /\ claims[<<pid, prayers'[pid].answerer>>].prayer_id = prayers[pid].id
            ELSE prayers'[pid].answerer = prayers[pid].answerer

\* C13: answer_prayer succeeds only for a caller who holds a live Claim for
\* that prayer at the moment of the call; the answerer field is set only by
\* such a call, to that caller, and is never changed afterwards, so a
\* non-default answerer holds or held a Claim for that prayer id.
C13_AnswererHeldClaim ==
    []C13_AnswerNeedsLiveClaim /\ [][C13_AnswererSetFromClaim]_vars

\* a Fulfilled prayer of two claimers, answered by one of them
C13_Witness ==
    \E pid \in PrayerIds, other \in Wallets :
        /\ prayers[pid].exists /\ prayers[pid].status = "Fulfilled"
        /\ prayers[pid].answerer # NoWallet
        /\ claims[<<pid, prayers[pid].answerer>>].exists
        /\ other # prayers[pid].answerer /\ claims[<<pid, other>>].exists

\* ---- C14 -----------------------------------------------------------------
C14_EscrowNonNegative ==
    \A pid \in PrayerIds : prayers[pid].exists => prayers[pid].escrow >= 0

C14_EscrowFrame ==
    \A pid \in PrayerIds :
        /\ PostStep(pid) => prayers'[pid].escrow = prayers'[pid].reward_lamports
        /\ (prayers[pid].exists /\ prayers'[pid].exists) =>
              /\ prayers'[pid].escrow <= prayers[pid].escrow
              /\ prayers'[pid].escrow < prayers[pid].escrow =>
                    ConfirmStep(pid) \/ CancelStep(pid)
        /\ (CloseStep(pid) /\ ~is_terminal(pid)) =>
              /\ is_expired(pid)
              /\ lamports'[prayers[pid].requester]
                    = lamports[prayers[pid].requester] + prayers[pid].escrow
        /\ (AnswerStep(pid) \/ \E c \in Wallets :
                ClaimStep(pid, c) \/ UnclaimStep(pid, c) \/ DeliverStep(pid, c)) =>
              /\ prayers'[pid].escrow = prayers[pid].escrow
              /\ lamports' = lamports

C15_Original ==
    \A pid \in PrayerIds, w \in Wallets :
        prayers[pid].exists =>
            cancel_prayer_result(w, pid) =
                IF prayers[pid].status # "Open" THEN "CannotCancel"
                ELSE IF prayers[pid].num_claimers > 0 THEN "HasClaimers"
                ELSE IF w # prayers[pid].requester THEN "NotRequester"
                ELSE "Ok"

\* C15 (amended): cancel_prayer succeeds only when called by the requester on
\* a prayer with status Open and num_claimers = 0.  It fails with
\* NotRequester for any other caller, whatever the status; called by the
\* requester it fails with CannotCancel when the status is not Open, and
\* with HasClaimers when the status is Open and num_claimers > 0.
C15_CancelGuards ==
    \A pid \in PrayerIds, w \in Wallets :
        prayers[pid].exists =>
            cancel_prayer_result(w, pid) =
                IF w # prayers[pid].requester THEN "NotRequester"
                ELSE IF prayers[pid].status # "Open" THEN "CannotCancel"
                ELSE IF prayers[pid].num_claimers > 0 THEN "HasClaimers"
                ELSE "Ok"

\* an Open prayer with escrow and one live claim out of two: the requester
\* is refused with HasClaimers, the claimer with NotRequester
C15_Witness ==
    \E pid \in PrayerIds, c \in Wallets :
        /\ prayers[pid].exists /\ prayers[pid].status = "Open"
        /\ prayers[pid].escrow = 3
        /\ claims[<<pid, c>>].exists
        /\ cancel_prayer_result(prayers[pid].requester, pid) = "HasClaimers"
        /\ cancel_prayer_result(c, pid) = "NotRequester"

\* ---- C16 -----------------------------------------------------------------
C16_RegisterOncePerOwner ==
    /\ chain.total_agents = Cardinality({w \in Wallets : agents[w].exists})
    /\ \A w \in Wallets, nl \in NameLenInputs, sl \in SkillsLenInputs, kz \in BOOLEAN :
          register_agent_result(w, nl, sl, kz) =
              IF agents[w].exists THEN "AccountAlreadyInUse"
              ELSE IF nl > MAX_NAME THEN "NameTooLong"
              ELSE IF sl > MAX_SKILLS THEN "SkillsTooLong"
              ELSE IF kz THEN "InvalidEncryptionKey"
              ELSE "Ok"

C16_RegisterIndependent ==
    /\ \A w \in Wallets :
          RegisterStep(w) =>
              /\ chain'.total_agents = chain.total_agents + 1
              /\ \A o \in Wallets \ {w} : agents'[o] = agents[o]
    /\ chain'.total_agents # chain.total_agents => \E w \in Wallets : RegisterStep(w)

\* C16: register_agent for an owner that already has an Agent record always
\* fails, so the record and total_agents stay as they are; for an owner
\* without one it succeeds on valid input whoever else is registered, creates
\* that owner's Agent, adds one to total_agents and alters no other Agent.
C16_RegisterAgent ==
    []C16_RegisterOncePerOwner /\ [][C16_RegisterIndependent]_vars

\* two owners registered, one of which has since earned reputation that a
\* second registration would have reset
C16_Witness ==
    \E a \in Wallets, b \in Wallets :
        /\ a # b /\ agents[a].exists /\ agents[b].exists
        /\ chain.total_agents = 2
        /\ agents[a].reputation = REP_ANSWER
        /\ register_agent_result(a, MAX_NAME, MAX_SKILLS, FALSE) = "AccountAlreadyInUse"

C18_ClosedPrayerPaidOutInFull ==
    \A pid \in PrayerIds :
        (pid < chain.total_prayers /\ ~prayers[pid].exists) =>
            paid_out[pid] = escrowed[pid]

C18_TerminalCloseReturnsResidual ==
    \A pid \in PrayerIds :
        (CloseStep(pid) /\ is_terminal(pid)) =>
            /\ prayers[pid].escrow = escrowed[pid] - paid_out[pid]
            /\ lamports'[prayers[pid].requester]
                  = lamports[prayers[pid].requester] + prayers[pid].escrow
            /\ \A w \in Wallets \ {prayers[pid].requester} : lamports'[w] = lamports[w]

\* C18: close_prayer on a Confirmed or Cancelled prayer returns to the
\* requester whatever escrow the prayer still holds (the remainder of the
\* division, or the whole reward when confirm_prayer paid nobody), so that
\* once the record is destroyed everything escrowed has been paid out.
C18_NoEscrowLostAtClose ==
    []C18_ClosedPrayerPaidOutInFull /\ [][C18_TerminalCloseReturnsResidual]_vars

\* a prayer of reward 3 confirmed with 1 paid to each of two claimers, then
\* closed: the requester is down by exactly the 2 paid
C18_Witness ==
    \E pid \in PrayerIds, r \in Wallets :
        /\ pid < chain.total_prayers /\ ~prayers[pid].exists
        /\ confirmed[pid].emitted /\ confirmed[pid].reward_total = 2
        /\ confirmed[pid].payees_are_claimers
        /\ escrowed[pid] = 3 /\ paid_out[pid] = 3
        /\ agents[r].exists /\ agents[r].prayers_posted = 1
        /\ lamports[r] = InitLamports - 2

\* ---- C19 -----------------------------------------------------------------
C19_IdsDistinctAndDense ==
    /\ \A pid \in DOMAIN prayers :
          IF pid < chain.total_prayers
          THEN prayers[pid].exists => prayers[pid].id = pid
          ELSE ~prayers[pid].exists
    /\ \A p \in DOMAIN prayers, q \in DOMAIN prayers :
          (p # q /\ prayers[p].exists /\ prayers[q].exists) =>
              prayers[p].id # prayers[q].id

C19_PostAdvancesCounter ==
    /\ \A pid \in DOMAIN prayers :
          /\ PostStep(pid) =>
                /\ prayers'[pid].id = chain.total_prayers
                /\ pid = chain.total_prayers
                /\ chain'.total_prayers = chain.total_prayers + 1
          /\ (prayers[pid].exists /\ prayers'[pid].exists) =>
                prayers'[pid].id = prayers[pid].id
    /\ chain'.total_prayers # chain.total_prayers =>
          \E pid \in DOMAIN prayers : PostStep(pid)

\* C19: every successful post_prayer gives the new prayer the id
\* total_prayers had before the call and adds exactly one to total_prayers,
\* which nothing else changes; so no two prayers have the same id, the ids
\* handed out are 0, 1, 2, ... without a gap, and the id of a closed prayer
\* is not handed out again.
C19_PrayerIdsUnique ==
    []C19_IdsDistinctAndDense /\ [][C19_PostAdvancesCounter]_vars

\* prayer 0 was posted, cancelled and closed; the next post, by another
\* requester, got id 1
C19_Witness ==
    /\ chain.total_prayers = 2
    /\ ~prayers[0].exists
    /\ prayers[1].exists /\ prayers[1].id = 1
    /\ agents[prayers[1].requester].prayers_posted = 1

\* ---- C20 -----------------------------------------------------------------
\* C20: for every existing prayer, num_claimers is the number of live Claim
\* records of that prayer; a Claim record is its claimer's only one for the
\* prayer, since claim_prayer by an agent holding one fails; and an agent of
\* whom no Claim is live (none yet, or removed by unclaim_prayer) can claim
\* an Open, unexpired prayer of somebody else.
C20_ClaimersCounted ==
    \A pid \in PrayerIds :
        prayers[pid].exists =>
            /\ prayers[pid].num_claimers = Cardinality(claimers_of(pid))
            /\ \A w \in Wallets :
                  IF claims[<<pid, w>>].exists
                  THEN /\ claims[<<pid, w>>].claimer = w
                       /\ claims[<<pid, w>>].prayer_id = prayers[pid].id
                       /\ claim_prayer_result(w, pid) = "AccountAlreadyInUse"
                  ELSE (/\ agents[w].exists
                        /\ prayers[pid].status = "Open"
                        /\ now < prayers[pid].expires_at
                        /\ w # prayers[pid].requester) =>
                            claim_prayer_result(w, pid) = "Ok"

\* an Open prayer with one of two slots taken, after the clock has passed
\* the claim timeout: the holder cannot claim again, another agent can
C20_Witness ==
    \E pid \in PrayerIds, a \in Wallets, b \in Wallets :
        /\ prayers[pid].exists /\ prayers[pid].status = "Open"
        /\ prayers[pid].max_claimers = 2 /\ prayers[pid].num_claimers = 1
        /\ claims[<<pid, a>>].exists /\ claims[<<pid, a>>].claimed_at > 0
        /\ claim_prayer_result(a, pid) = "AccountAlreadyInUse"
        /\ ~claims[<<pid, b>>].exists
        /\ claim_prayer_result(b, pid) = "Ok"

\* ---- C21 -----------------------------------------------------------------
C21_AnsweredHasClaimers ==
    \A pid \in PrayerIds :
        (prayers[pid].exists /\ prayers[pid].status \in {"Fulfilled", "Confirmed"}) =>
            /\ prayers[pid].num_claimers >= 1
            /\ prayers[pid].answerer # NoWallet
            /\ claims[<<pid, prayers[pid].answerer>>].exists
            /\ \A w \in Wallets :
                  /\ claim_prayer_result(w, pid) # "Ok"
                  /\ \A cp \in PrayerIds, c \in Wallets, cw \in Wallets :
                        unclaim_prayer_result(w, pid, cp, c, cw) # "Ok"

C21_ClaimSetKept ==
    \A pid \in PrayerIds :
        /\ AnswerStep(pid) =>
              /\ prayers'[pid].num_claimers = prayers[pid].num_claimers
              /\ \A c \in Wallets : claims'[<<pid, c>>] = claims[<<pid, c>>]
        /\ (/\ prayers[pid].exists
            /\ prayers[pid].status \in {"Fulfilled", "Confirmed"}
            /\ prayers'[pid].exists) =>
              /\ prayers'[pid].num_claimers = prayers[pid].num_claimers
              /\ \A c \in Wallets : claims'[<<pid, c>>] = claims[<<pid, c>>]

\* C21: once a prayer is Fulfilled its claim set is frozen: in Fulfilled and
\* Confirmed claim_prayer and unclaim_prayer fail for every caller, however
\* old the claim; num_claimers is at least 1 and stays what it was when
\* answer_prayer succeeded, no Claim of the prayer is created, removed or
\* changed, and the answerer holds a live Claim.
C21_ClaimSetFrozen ==
    []C21_AnsweredHasClaimers /\ [][C21_ClaimSetKept]_vars

\* a Confirmed prayer both of whose claims have gone stale: the requester's
\* sweep of the answerer's claim is refused
C21_Witness ==
    \E pid \in PrayerIds, other \in Wallets :
        /\ prayers[pid].exists /\ prayers[pid].status = "Confirmed"
        /\ prayers[pid].num_claimers = 2
        /\ other # prayers[pid].answerer /\ claims[<<pid, other>>].exists
        /\ now > claims[<<pid, prayers[pid].answerer>>].claimed_at + CLAIM_TIMEOUT_SECONDS
        /\ unclaim_prayer_result(prayers[pid].requester, pid, pid,
                                 prayers[pid].answerer, prayers[pid].answerer) = "NotClaimed"

\* ---- C22 -----------------------------------------------------------------
C22_ReputationFormula ==
    \A w \in Wallets :
        agents[w].exists =>
            /\ agents[w].reputation
                  = 10 * agents[w].prayers_answered + 5 * agents[w].prayers_confirmed
            /\ agents[w].prayers_confirmed <= agents[w].prayers_answered

C22_ReputationSteps ==
    /\ \A w \in Wallets :
          agents[w].exists =>
              /\ agents'[w].exists
              /\ agents'[w].reputation >= agents[w].reputation
              /\ agents'[w].prayers_posted >= agents[w].prayers_posted
              /\ agents'[w].prayers_answered >= agents[w].prayers_answered
              /\ agents'[w].prayers_confirmed >= agents[w].prayers_confirmed
              /\ agents'[w].prayers_answered # agents[w].prayers_answered =>
                    \E pid \in PrayerIds : AnswerStep(pid) /\ prayers'[pid].answerer = w
              /\ agents'[w].prayers_confirmed # agents[w].prayers_confirmed =>
                    \E pid \in PrayerIds : ConfirmStep(pid) /\ prayers[pid].answerer = w
    /\ \A pid \in PrayerIds :
          /\ AnswerStep(pid) =>
                agents' = [agents EXCEPT
                              ![prayers'[pid].answerer].prayers_answered = @ + 1,
                              ![prayers'[pid].answerer].reputation = @ + 10]
          /\ ConfirmStep(pid) =>
                /\ prayers'[pid].answerer = prayers[pid].answerer
                /\ agents' = [agents EXCEPT
                                 ![prayers[pid].answerer].prayers_confirmed = @ + 1,
                                 ![prayers[pid].answerer].reputation = @ + 5]

\* C22: every Agent has reputation = 10 * prayers_answered +
\* 5 * prayers_confirmed and prayers_confirmed <= prayers_answered; the
\* reputation and the three counters never go down; an answer is counted
\* (+1, +10) only as a prayer becomes Fulfilled and a confirmation (+1, +5)
\* only as it becomes Confirmed, each once per prayer and both for the
\* prayer's answerer.
C22_ReputationAccounting ==
    []C22_ReputationFormula /\ [][C22_ReputationSteps]_vars

\* an agent whose one answer has been confirmed
C22_Witness ==
    \E pid \in PrayerIds :
        /\ prayers[pid].exists /\ prayers[pid].status = "Confirmed"
        /\ agents[prayers[pid].answerer].prayers_answered = 1
        /\ agents[prayers[pid].answerer].prayers_confirmed = 1
        /\ agents[prayers[pid].answerer].reputation = 15

\* ---- C23 -----------------------------------------------------------------
\* the sum of f over the set S
RECURSIVE C23_Sum(_, _)
C23_Sum(f, S) ==
    IF S = {} THEN 0
    ELSE LET x == CHOOSE y \in S : TRUE IN f[x] + C23_Sum(f, S \ {x})

C23_HeldEscrow ==
    [pid \in PrayerIds |-> IF prayers[pid].exists THEN prayers[pid].escrow ELSE 0]

\* C23: reward value is conserved: in every reachable state the wallets'
\* balances plus the escrow held by the existing Prayer records add up to
\* what the wallets started with, and what a prayer still holds is what was
\* escrowed at post_prayer less what has been paid out of it (to confirm
\* payees or back to the requester); a destroyed prayer has paid out all of it.
C23_ValueConserved ==
    /\ C23_Sum(lamports, Wallets) + C23_Sum(C23_HeldEscrow, PrayerIds)
          = InitLamports * Cardinality(Wallets)
    /\ \A pid \in PrayerIds :
          IF prayers[pid].exists
          THEN prayers[pid].escrow = escrowed[pid] - paid_out[pid]
          ELSE paid_out[pid] = escrowed[pid]

\* a closed prayer of reward 3: 2 went to the claimers, the remainder back
\* to the requester, and the wallets hold again all there is
C23_Witness ==
    \E pid \in PrayerIds, c \in Wallets :
        /\ pid < chain.total_prayers /\ ~prayers[pid].exists
        /\ escrowed[pid] = 3
        /\ confirmed[pid].emitted /\ confirmed[pid].reward_total = 2
        /\ lamports[c] = InitLamports + 1
        /\ C23_Sum(lamports, Wallets) = InitLamports * Cardinality(Wallets)

\* ---- C24 -----------------------------------------------------------------
\* C24: no Claim record outlives its Prayer: in every reachable state every
\* live Claim is the claim of a Prayer record that exists and can still be
\* destroyed by its claimer's unclaim_prayer.  (Refuted: close_prayer does
\* not look at the claims, and unclaim_prayer needs the Prayer account.)
C24_NoClaimOutlivesPrayer ==
    \A pid \in PrayerIds, c \in Wallets :
        claims[<<pid, c>>].exists =>
            /\ prayers[pid].exists
            /\ unclaim_prayer_result(c, pid, pid, c, c) # "AccountNotInitialized"
====
